---- MODULE Spec2Model ----
(***************************************************************************)
(* Best Cart Deal Calculator: src/utils/calculator.js (calculateBestDeal,  *)
(* calculateSingleVendorCost, getAllVendorComparisons, analyzeCartDeal)    *)
(* and the POST /best-deal handler of src/server.js.                       *)
(*                                                                         *)
(* Money is an integer number of 1/Resolution cents, so that toFixed(2)    *)
(* (rounding to whole cents) is not the identity.  JavaScript values that  *)
(* the code tests with typeof or for truthiness are tagged records.        *)
(***************************************************************************)
EXTENDS Integers, Sequences, FiniteSets, TLC

VARIABLES cart, vendors, op, arg, result

vars == <<cart, vendors, op, arg, result>>

\* ---------------------------------------------------------------- bounds
MaxCart == 2
MaxVendors == 3
MaxPrice == 1
MaxShipping == 2
Resolution == 2

\* ------------------------------------------------------ JavaScript values
Undefined == [type |-> "undefined"]
Null == [type |-> "null"]
Str(s) == [type |-> "string", val |-> s]
Num(n) == [type |-> "number", val |-> n]
Obj(m) == [type |-> "object", map |-> m]

TypeOf(x) == x.type

\* !x
Falsy(x) ==
  \/ x.type = "undefined"
  \/ x.type = "null"
  \/ (x.type = "string" /\ x.val = "")
  \/ (x.type = "number" /\ x.val = 0)

Abs(x) == IF x < 0 THEN -x ELSE x

Sign(x) == IF x < 0 THEN -1 ELSE 1

\* parseFloat(x.toFixed(2)): the nearest whole cent, a tie away from zero
Round2(x) ==
  Sign(x) * ((2 * Abs(x) + Resolution) \div (2 * Resolution)) * Resolution

\* ----------------------------------------------------------------- inputs
Items == {"Laptop", "mustard"}

ItemOrder == <<"Laptop", "mustard">>

\* the vendor at position j of a request carries the j-th name
VendorNames == <<"TechStore", "ElectroMart", "BudgetTech", "MegaShop", "CornerShop">>

Mappings == UNION {[D -> 0..MaxPrice] : D \in SUBSET Items}

Vendor(n, s, m) == [name |-> n, shipping |-> s, items |-> m]

WellFormedVendors(j) ==
  {Vendor(Str(VendorNames[j]), Num(s), Obj(m)) : s \in 0..MaxShipping, m \in Mappings}

AllItemsAtOne == [i \in Items |-> 1]

\* entries that fail a check of calculator.js or of validateRequestData
MalformedVendors(j) ==
  {Vendor(Undefined, Num(1), Obj(AllItemsAtOne)),
   Vendor(Str(""), Num(1), Obj(AllItemsAtOne)),
   Vendor(Str(VendorNames[j]), Undefined, Obj(AllItemsAtOne)),
   Vendor(Str(VendorNames[j]), Num(-1), Obj(AllItemsAtOne)),
   Vendor(Str(VendorNames[j]), Num(1), Undefined),
   Vendor(Str(VendorNames[j]), Num(1), Obj([i \in Items |-> -1]))}

\* an entry that repeats the first vendor's name
DuplicateVendors == {Vendor(Str(VendorNames[1]), Num(1), Obj(AllItemsAtOne))}

VendorsAt(j) == WellFormedVendors(j) \cup MalformedVendors(j) \cup DuplicateVendors

\* ------------------------------------------------------------- exceptions
Throw(msg) == [threw |-> TRUE, error |-> msg]

Return(v) == [threw |-> FALSE, value |-> v]

\* the item keys of a vendor's items object, as JSON.stringify prints them
KeysFrom(m, k) ==
  LET F[i \in 0..Len(ItemOrder)] ==
        IF i = 0 THEN <<>>
        ELSE IF ItemOrder[i] \in DOMAIN m THEN Append(F[i - 1], ItemOrder[i])
        ELSE F[i - 1]
  IN F[k]

\* JSON.stringify(vendor): the strings it holds (numbers and punctuation left out)
Stringify(vendor) ==
  (IF vendor.name.type = "string" THEN <<vendor.name.val>> ELSE <<>>)
  \o (IF vendor.items.type = "object"
      THEN KeysFrom(vendor.items.map, Len(ItemOrder)) ELSE <<>>)

\* ------------------------------------------------------ calculateBestDeal
Infinity == [inf |-> TRUE]

Finite(n) == [inf |-> FALSE, val |-> n]

\* vendor.items[item] !== undefined
HasItem(vendor, item) ==
  vendor.items.type = "object" /\ item \in DOMAIN vendor.items.map

\* ScanVendors with the first offer kept: a later, cheaper vendor never replaces it
RECURSIVE ScanVendorsFirstOffer(_, _, _, _)
ScanVendorsFirstOffer(item, vs, j, best) ==
  IF j > Len(vs) THEN Return(best)
  ELSE LET vendor == vs[j] IN
    IF Falsy(vendor.name) \/ TypeOf(vendor.shipping) /= "number" \/ Falsy(vendor.items)
    THEN Throw(<<"Invalid vendor structure: ">> \o Stringify(vendor))
    ELSE IF HasItem(vendor, item) /\ best.bestPrice.inf
         THEN ScanVendorsFirstOffer(item, vs, j + 1,
                [bestVendor |-> vendor.name,
                 bestPrice |-> Finite(vendor.items.map[item])])
         ELSE ScanVendorsFirstOffer(item, vs, j + 1, best)

\* ScanVendors with <= for <: the last vendor at the minimum price wins a tie
RECURSIVE ScanVendorsLastWins(_, _, _, _)
ScanVendorsLastWins(item, vs, j, best) ==
  IF j > Len(vs) THEN Return(best)
  ELSE LET vendor == vs[j] IN
    IF Falsy(vendor.name) \/ TypeOf(vendor.shipping) /= "number" \/ Falsy(vendor.items)
    THEN Throw(<<"Invalid vendor structure: ">> \o Stringify(vendor))
    ELSE IF /\ HasItem(vendor, item)
            /\ (best.bestPrice.inf \/ vendor.items.map[item] <= best.bestPrice.val)
         THEN ScanVendorsLastWins(item, vs, j + 1,
                [bestVendor |-> vendor.name,
                 bestPrice |-> Finite(vendor.items.map[item])])
         ELSE ScanVendorsLastWins(item, vs, j + 1, best)

\* ScanVendors with a truthiness test of the price: an offer at zero is no offer
RECURSIVE ScanVendorsZeroIsNoOffer(_, _, _, _)
ScanVendorsZeroIsNoOffer(item, vs, j, best) ==
  IF j > Len(vs) THEN Return(best)
  ELSE LET vendor == vs[j] IN
    IF Falsy(vendor.name) \/ TypeOf(vendor.shipping) /= "number" \/ Falsy(vendor.items)
    THEN Throw(<<"Invalid vendor structure: ">> \o Stringify(vendor))
    ELSE IF /\ HasItem(vendor, item)
            /\ vendor.items.map[item] /= 0
            /\ (best.bestPrice.inf \/ vendor.items.map[item] < best.bestPrice.val)
         THEN ScanVendorsZeroIsNoOffer(item, vs, j + 1,
                [bestVendor |-> vendor.name,
                 bestPrice |-> Finite(vendor.items.map[item])])
         ELSE ScanVendorsZeroIsNoOffer(item, vs, j + 1, best)

\* the inner loop: for (const vendor of vendors) { validate; keep if cheaper }
RECURSIVE ScanVendors(_, _, _, _)
ScanVendors(item, vs, j, best) ==
  IF j > Len(vs) THEN Return(best)
  ELSE LET vendor == vs[j] IN
    IF Falsy(vendor.name) \/ TypeOf(vendor.shipping) /= "number" \/ Falsy(vendor.items)
    THEN Throw(<<"Invalid vendor structure: ">> \o Stringify(vendor))
    ELSE IF /\ HasItem(vendor, item)
            /\ (best.bestPrice.inf \/ vendor.items.map[item] < best.bestPrice.val)
         THEN ScanVendors(item, vs, j + 1,
                [bestVendor |-> vendor.name,
                 bestPrice |-> Finite(vendor.items.map[item])])
         ELSE ScanVendors(item, vs, j + 1, best)

\* selectedVendors.add(name): a Set keeps insertion order and no duplicate
SetAdd(seq, x) ==
  IF \E k \in 1..Len(seq) : seq[k] = x THEN seq ELSE Append(seq, x)

SetHas(seq, x) == \E k \in 1..Len(seq) : seq[k] = x

\* the outer loop: for (const item of cart)
RECURSIVE SelectItems(_, _, _, _)
SelectItems(c, vs, i, acc) ==
  IF i > Len(c) THEN Return(acc)
  ELSE LET item == c[i]
           scan == ScanVendors(item, vs, 1, [bestVendor |-> Null, bestPrice |-> Infinity])
       IN IF scan.threw THEN scan
          ELSE IF ~Falsy(scan.value.bestVendor) /\ ~scan.value.bestPrice.inf
          THEN SelectItems(c, vs, i + 1,
                 [selection |-> (item :> scan.value.bestVendor.val) @@ acc.selection,
                  selectedVendors |-> SetAdd(acc.selectedVendors, scan.value.bestVendor.val),
                  totalItemCost |-> acc.totalItemCost + scan.value.bestPrice.val])
          ELSE Throw(<<"Item \"", item, "\" is not available from any vendor">>)

\* TotalShipping with the fee of every listed vendor added, selected or not
RECURSIVE TotalShippingPerVendorListed(_, _, _)
TotalShippingPerVendorListed(vs, selectedVendors, j) ==
  IF j > Len(vs) THEN 0
  ELSE vs[j].shipping.val + TotalShippingPerVendorListed(vs, selectedVendors, j + 1)

\* for (const vendor of vendors) if (selectedVendors.has(vendor.name)) totalShipping += ...
RECURSIVE TotalShipping(_, _, _)
TotalShipping(vs, selectedVendors, j) ==
  IF j > Len(vs) THEN 0
  ELSE (IF SetHas(selectedVendors, vs[j].name.val) THEN vs[j].shipping.val ELSE 0)
       + TotalShipping(vs, selectedVendors, j + 1)

calculateBestDeal(c, vs) ==
  IF Len(c) = 0 THEN Throw(<<"Cart must be a non-empty array of items">>)
  ELSE IF Len(vs) = 0 THEN Throw(<<"Vendors must be a non-empty array">>)
  ELSE LET loop == SelectItems(c, vs, 1,
                     [selection |-> [x \in {} |-> ""],
                      selectedVendors |-> <<>>,
                      totalItemCost |-> 0])
       IN IF loop.threw THEN loop
          ELSE LET totalItemCost == loop.value.totalItemCost
                   totalShipping == TotalShipping(vs, loop.value.selectedVendors, 1)
                   cheapestTotal == totalItemCost + totalShipping
               IN Return([cheapest_total |-> Round2(cheapestTotal),
                          selection |-> loop.value.selection,
                          breakdown |->
                            [items_cost |-> Round2(totalItemCost),
                             shipping_cost |-> Round2(totalShipping),
                             selected_vendors |-> loop.value.selectedVendors,
                             total_vendors_used |-> Len(loop.value.selectedVendors)]])

\* ----------------------------------------------- calculateSingleVendorCost
\* SumVendorItems with a missing item skipped at no cost
RECURSIVE SumVendorItemsSkipMissing(_, _, _, _)
SumVendorItemsSkipMissing(c, vendor, i, totalItemCost) ==
  IF i > Len(c) THEN [missing |-> FALSE, totalItemCost |-> totalItemCost]
  ELSE IF ~HasItem(vendor, c[i])
  THEN SumVendorItemsSkipMissing(c, vendor, i + 1, totalItemCost)
  ELSE SumVendorItemsSkipMissing(c, vendor, i + 1, totalItemCost + vendor.items.map[c[i]])

\* the loop over the cart: null as soon as an item is missing, else the running sum
RECURSIVE SumVendorItems(_, _, _, _)
SumVendorItems(c, vendor, i, totalItemCost) ==
  IF i > Len(c) THEN [missing |-> FALSE, totalItemCost |-> totalItemCost]
  ELSE IF ~HasItem(vendor, c[i]) THEN [missing |-> TRUE, totalItemCost |-> 0]
  ELSE SumVendorItems(c, vendor, i + 1, totalItemCost + vendor.items.map[c[i]])

calculateSingleVendorCost(c, vendor) ==
  IF Falsy(vendor.name) \/ TypeOf(vendor.shipping) /= "number" \/ Falsy(vendor.items)
  THEN Null
  ELSE LET loop == SumVendorItems(c, vendor, 1, 0)
       IN IF loop.missing THEN Null
          ELSE [type |-> "object",
                vendor_name |-> vendor.name.val,
                items_cost |-> Round2(loop.totalItemCost),
                shipping_cost |-> vendor.shipping.val,
                total_cost |-> Round2(loop.totalItemCost + vendor.shipping.val)]

\* ------------------------------------------------- getAllVendorComparisons
\* for (const vendor of vendors) { cost = ...; if (cost) comparisons.push(cost) }
RECURSIVE CollectComparisons(_, _, _)
CollectComparisons(c, vs, j) ==
  IF j > Len(vs) THEN <<>>
  ELSE LET cost == calculateSingleVendorCost(c, vs[j])
       IN (IF ~Falsy(cost) THEN <<cost>> ELSE <<>>) \o CollectComparisons(c, vs, j + 1)

\* InsertByTotal with < for <=: e goes before the elements it ties with
RECURSIVE InsertBeforeEqual(_, _)
InsertBeforeEqual(sorted, e) ==
  IF sorted = <<>> THEN <<e>>
  ELSE IF sorted[Len(sorted)].total_cost - e.total_cost < 0 THEN Append(sorted, e)
  ELSE Append(InsertBeforeEqual(SubSeq(sorted, 1, Len(sorted) - 1), e),
              sorted[Len(sorted)])

\* e goes after every element that does not compare greater than it
RECURSIVE InsertByTotal(_, _)
InsertByTotal(sorted, e) ==
  IF sorted = <<>> THEN <<e>>
  ELSE IF sorted[Len(sorted)].total_cost - e.total_cost <= 0 THEN Append(sorted, e)
  ELSE Append(InsertByTotal(SubSeq(sorted, 1, Len(sorted) - 1), e), sorted[Len(sorted)])

\* Array.prototype.sort((a, b) => a.total_cost - b.total_cost): a stable sort
RECURSIVE SortByTotal(_)
SortByTotal(seq) ==
  IF seq = <<>> THEN <<>>
  ELSE InsertByTotal(SortByTotal(SubSeq(seq, 1, Len(seq) - 1)), seq[Len(seq)])

getAllVendorComparisons(c, vs) == SortByTotal(CollectComparisons(c, vs, 1))

\* --------------------------------------------------------- analyzeCartDeal
Finite64(n) == [kind |-> "finite", val |-> n]

NaN == [kind |-> "NaN"]

PlusInfinity == [kind |-> "Infinity"]

MinusInfinity == [kind |-> "-Infinity"]

\* n / d rounded to the nearest integer, a tie away from zero
RoundDiv(n, d) ==
  Sign(n) * Sign(d) * ((2 * Abs(n) + Abs(d)) \div (2 * Abs(d)))

\* parseFloat(((a - b) / a * 100).toFixed(2)), in hundredths of a percent
PercentageSaved(a, b) ==
  IF a = 0
  THEN (IF a - b = 0 THEN NaN ELSE IF a - b > 0 THEN PlusInfinity ELSE MinusInfinity)
  ELSE Finite64(RoundDiv((a - b) * 10000, a))

\* analyzeCartDeal that reports the cheapest single vendor as the deal when it
\* beats the greedy total
analyzeCartDealSwitching(c, vs) ==
  LET call == calculateBestDeal(c, vs) IN
  IF call.threw THEN call
  ELSE LET vendorComparisons == getAllVendorComparisons(c, vs)
           switch == /\ Len(vendorComparisons) > 0
                     /\ vendorComparisons[1].total_cost < call.value.cheapest_total
           optimalDeal ==
             IF switch
             THEN [cheapest_total |-> vendorComparisons[1].total_cost,
                   selection |-> [i \in DOMAIN call.value.selection |->
                                    vendorComparisons[1].vendor_name],
                   breakdown |->
                     [items_cost |-> vendorComparisons[1].items_cost,
                      shipping_cost |-> Round2(vendorComparisons[1].shipping_cost),
                      selected_vendors |-> <<vendorComparisons[1].vendor_name>>,
                      total_vendors_used |-> 1]]
             ELSE call.value
       IN IF Len(vendorComparisons) > 0
          THEN LET cheapestSingleVendor == vendorComparisons[1].total_cost
                   mostExpensiveVendor ==
                     vendorComparisons[Len(vendorComparisons)].total_cost
               IN Return([optimal_deal |-> optimalDeal,
                          vendor_comparisons |-> vendorComparisons,
                          savings_analysis |->
                            [vs_cheapest_single_vendor |->
                               Round2(cheapestSingleVendor - optimalDeal.cheapest_total),
                             vs_most_expensive_vendor |->
                               Round2(mostExpensiveVendor - optimalDeal.cheapest_total),
                             percentage_saved |->
                               PercentageSaved(mostExpensiveVendor,
                                               optimalDeal.cheapest_total)]])
          ELSE Return([optimal_deal |-> optimalDeal,
                       vendor_comparisons |-> vendorComparisons,
                       savings_analysis |->
                         [vs_cheapest_single_vendor |-> 0,
                          vs_most_expensive_vendor |-> 0,
                          percentage_saved |-> Finite64(0)]])

analyzeCartDeal(c, vs) ==
  LET call == calculateBestDeal(c, vs) IN
  IF call.threw THEN call
  ELSE LET optimalDeal == call.value
           vendorComparisons == getAllVendorComparisons(c, vs)
       IN IF Len(vendorComparisons) > 0
          THEN LET cheapestSingleVendor == vendorComparisons[1].total_cost
                   mostExpensiveVendor ==
                     vendorComparisons[Len(vendorComparisons)].total_cost
               IN Return([optimal_deal |-> optimalDeal,
                          vendor_comparisons |-> vendorComparisons,
                          savings_analysis |->
                            [vs_cheapest_single_vendor |->
                               Round2(cheapestSingleVendor - optimalDeal.cheapest_total),
                             vs_most_expensive_vendor |->
                               Round2(mostExpensiveVendor - optimalDeal.cheapest_total),
                             percentage_saved |->
                               PercentageSaved(mostExpensiveVendor,
                                               optimalDeal.cheapest_total)]])
          ELSE Return([optimal_deal |-> optimalDeal,
                       vendor_comparisons |-> vendorComparisons,
                       savings_analysis |->
                         [vs_cheapest_single_vendor |-> 0,
                          vs_most_expensive_vendor |-> 0,
                          percentage_saved |-> Finite64(0)]])

\* ------------------------------------------------------- src/server.js
MaxCartItems == 50

MaxVendorCount == 20

\* forEach that throws at the first failing element: the least index whose flag
\* is set, 0 when none is
FirstFailing(flags) ==
  IF \E k \in 1..Len(flags) : flags[k]
  THEN CHOOSE k \in 1..Len(flags) : flags[k] /\ \A l \in 1..(k - 1) : ~flags[l]
  ELSE 0

\* Object.entries(vendor.items): the first item whose price is no number >= 0
BadPriceItem(vendor) ==
  LET keys == KeysFrom(vendor.items.map, Len(ItemOrder))
      k == FirstFailing([n \in 1..Len(keys) |-> vendor.items.map[keys[n]] < 0])
  IN IF k = 0 THEN "" ELSE keys[k]

\* the checks of one vendor, in the order of the forEach callback
VendorProblem(vendor, index) ==
  IF Falsy(vendor.name) \/ TypeOf(vendor.name) /= "string" \/ vendor.name.val = ""
  THEN <<"Vendor ", ToString(index), " must have a valid name">>
  ELSE IF TypeOf(vendor.shipping) /= "number" \/ vendor.shipping.val < 0
  THEN <<"Vendor ", ToString(index), " must have a valid shipping fee (number >= 0)">>
  ELSE IF Falsy(vendor.items) \/ TypeOf(vendor.items) /= "object"
  THEN <<"Vendor ", ToString(index), " must have an items object">>
  ELSE IF BadPriceItem(vendor) /= ""
  THEN <<"Invalid price for item \"", BadPriceItem(vendor), "\" from vendor \"",
         vendor.name.val, "\"">>
  ELSE <<>>

\* cart and vendors are arrays here, so the two Array.isArray checks pass
validateRequestData(c, vs) ==
  IF Len(c) = 0 THEN Throw(<<"Cart cannot be empty">>)
  ELSE IF Len(c) > MaxCartItems THEN Throw(<<"Cart cannot have more than 50 items">>)
  ELSE LET i == FirstFailing([n \in 1..Len(c) |-> c[n] = ""])
       IN
  IF i /= 0 THEN Throw(<<"Cart item ", ToString(i), " must be a non-empty string">>)
  ELSE IF Len(vs) = 0 THEN Throw(<<"At least one vendor is required">>)
  ELSE IF Len(vs) > MaxVendorCount THEN Throw(<<"Cannot have more than 20 vendors">>)
  ELSE LET j == FirstFailing([n \in 1..Len(vs) |-> VendorProblem(vs[n], n) /= <<>>])
       IN IF j /= 0 THEN Throw(VendorProblem(vs[j], j)) ELSE Return(TRUE)

\* s.includes(kw), for the strings the messages of this model are made of
FragmentIncludes(s, kw) ==
  \/ /\ kw = "must"
     /\ s \in {"Cart must be a non-empty array of items",
               "Vendors must be a non-empty array",
               " must be a non-empty string",
               " must have a valid name",
               " must have a valid shipping fee (number >= 0)",
               " must have an items object",
               "mustard"}
  \/ /\ kw = "cannot"
     /\ s \in {"Cart cannot be empty", "Cart cannot have more than 50 items"}

Includes(msg, kw) == \E k \in 1..Len(msg) : FragmentIncludes(msg[k], kw)

\* app.post('/best-deal', ...): the try block and its catch
postBestDeal(c, vs) ==
  LET valid == validateRequestData(c, vs)
      calc == IF valid.threw THEN valid ELSE calculateBestDeal(c, vs)
  IN IF calc.threw
     THEN [status |-> IF Includes(calc.error, "must") \/ Includes(calc.error, "cannot")
                      THEN 400 ELSE 500,
           error |-> calc.error]
     ELSE [status |-> 200, body |-> calc.value]

\* ------------------------------------------------------------ the machine
Init ==
  /\ cart = <<>>
  /\ vendors = <<>>
  /\ op = "idle"
  /\ arg = 0
  /\ result = Return(Undefined)

\* the caller puts one more item in the cart it will pass
AddCartItem ==
  /\ op = "idle"
  /\ Len(cart) < MaxCart
  /\ \E item \in Items : cart' = Append(cart, item)
  /\ UNCHANGED <<vendors, op, arg, result>>

\* the caller puts one more vendor entry in the list it will pass
AddVendor ==
  /\ op = "idle"
  /\ Len(vendors) < MaxVendors
  /\ \E v \in VendorsAt(Len(vendors) + 1) : vendors' = Append(vendors, v)
  /\ UNCHANGED <<cart, op, arg, result>>

CallBestDeal ==
  /\ op = "idle"
  /\ op' = "calculateBestDeal"
  /\ arg' = 0
  /\ result' = calculateBestDeal(cart, vendors)
  /\ UNCHANGED <<cart, vendors>>

CallSingleVendorCost ==
  /\ op = "idle"
  /\ \E j \in 1..Len(vendors) :
       /\ arg' = j
       /\ result' = Return(calculateSingleVendorCost(cart, vendors[j]))
  /\ op' = "calculateSingleVendorCost"
  /\ UNCHANGED <<cart, vendors>>

CallAllVendorComparisons ==
  /\ op = "idle"
  /\ op' = "getAllVendorComparisons"
  /\ arg' = 0
  /\ result' = Return(getAllVendorComparisons(cart, vendors))
  /\ UNCHANGED <<cart, vendors>>

CallAnalyzeCartDeal ==
  /\ op = "idle"
  /\ op' = "analyzeCartDeal"
  /\ arg' = 0
  /\ result' = analyzeCartDeal(cart, vendors)
  /\ UNCHANGED <<cart, vendors>>

PostBestDeal ==
  /\ op = "idle"
  /\ op' = "POST /best-deal"
  /\ arg' = 0
  /\ result' = postBestDeal(cart, vendors)
  /\ UNCHANGED <<cart, vendors>>

Next ==
  \/ AddCartItem
  \/ AddVendor
  \/ CallBestDeal
  \/ CallSingleVendorCost
  \/ CallAllVendorComparisons
  \/ CallAnalyzeCartDeal
  \/ PostBestDeal

Spec == Init /\ [][Next]_vars
\* ================================================================ claims
\* what the claims speak of, stated from the inputs alone
CartItems == {cart[i] : i \in 1..Len(cart)}

NameOK(v) == v.name.type = "string" /\ v.name.val /= ""

\* the entry passes the structure check of calculator.js
StructureOK(v) == NameOK(v) /\ v.shipping.type = "number" /\ v.items.type = "object"

\* a vendor of the data model: a name, a fee >= 0, prices >= 0
WellFormed(v) ==
  /\ StructureOK(v)
  /\ v.shipping.val >= 0
  /\ \A i \in DOMAIN v.items.map : v.items.map[i] >= 0

AllWellFormed == \A j \in 1..Len(vendors) : WellFormed(vendors[j])

UniqueNames ==
  \A j, k \in 1..Len(vendors) : vendors[j].name = vendors[k].name => j = k

Carriers(item) ==
  {j \in 1..Len(vendors) :
     vendors[j].items.type = "object" /\ item \in DOMAIN vendors[j].items.map}

PriceAt(j, item) == vendors[j].items.map[item]

MinPriceOf(item) ==
  CHOOSE p \in {PriceAt(j, item) : j \in Carriers(item)} :
    \A j \in Carriers(item) : p <= PriceAt(j, item)

\* the sum of P(item) over the cart positions
CartSum(P(_)) ==
  LET S[i \in 0..Len(cart)] == IF i = 0 THEN 0 ELSE S[i - 1] + P(cart[i])
  IN S[Len(cart)]

\* the sum of W(j) over the vendor positions
VendorSum(W(_)) ==
  LET S[j \in 0..Len(vendors)] == IF j = 0 THEN 0 ELSE S[j - 1] + W(j)
  IN S[Len(vendors)]

\* r is x rounded to 2 decimals (a whole number of cents; a tie goes away from zero)
IsRounded(r, x) ==
  /\ r % Resolution = 0
  /\ 2 * Abs(r - x) <= Resolution
  /\ (2 * Abs(r - x) = Resolution => Abs(r) > Abs(x))

BestDealCalled == op = "calculateBestDeal"

BestDealSucceeded == BestDealCalled /\ ~result.threw

ItemUnavailableError(r) == r.threw /\ r.error[1] = "Item \""

InvalidVendorError(r) == r.threw /\ r.error[1] = "Invalid vendor structure: "

\* the precondition of C1 and C4
ValidBestDealInput ==
  /\ BestDealCalled
  /\ Len(cart) > 0
  /\ Len(vendors) > 0
  /\ AllWellFormed

EveryItemOffered == \A item \in CartItems : Carriers(item) /= {}

\* C1 as stated: on a non-empty cart and well-formed vendors that together offer
\* every item, calculateBestDeal succeeds and items_cost equals the sum over the
\* cart positions of the minimum price offered for the item.
C1_AsStated ==
  (ValidBestDealInput /\ EveryItemOffered) =>
    /\ ~result.threw
    /\ result.value.breakdown.items_cost = CartSum(MinPriceOf)

\* C1 amended: under the same precondition calculateBestDeal succeeds and items_cost
\* equals that sum of minimum prices rounded to 2 decimals.
C1_ItemsCostIsRoundedMinSum ==
  (ValidBestDealInput /\ EveryItemOffered) =>
    /\ ~result.threw
    /\ IsRounded(result.value.breakdown.items_cost, CartSum(MinPriceOf))

\* two vendors price an item differently, a repeated or second item is summed, and
\* rounding changes the sum
C1_Witness ==
  /\ ValidBestDealInput /\ EveryItemOffered /\ UniqueNames
  /\ ~result.threw
  /\ Len(cart) = 2
  /\ \E j, k \in Carriers(cart[1]) : PriceAt(j, cart[1]) < PriceAt(k, cart[1])
  /\ result.value.breakdown.items_cost /= CartSum(MinPriceOf)

\* the names that appear as values of the selection mapping
SelectionNames(sel) == {sel[i] : i \in DOMAIN sel}

\* the shipping of the vendors whose name the selection holds, each vendor once
UsedShipping(sel) ==
  LET W(j) == IF vendors[j].name.val \in SelectionNames(sel)
              THEN vendors[j].shipping.val ELSE 0
  IN VendorSum(W)

\* the position of the vendor called n (names are unique where this is used)
VendorCalled(n) == CHOOSE j \in 1..Len(vendors) : vendors[j].name.val = n

\* the price each cart position pays at the vendor the selection gives its item
PaidForItems(sel) ==
  LET P(item) == PriceAt(VendorCalled(sel[item]), item) IN CartSum(P)

\* C2 as stated: on success with unique vendor names, shipping_cost is the sum of
\* shipping over the distinct vendors named in the selection, and cheapest_total
\* equals items_cost plus shipping_cost.
C2_AsStated ==
  (BestDealSucceeded /\ UniqueNames) =>
    /\ result.value.breakdown.shipping_cost = UsedShipping(result.value.selection)
    /\ result.value.cheapest_total =
         result.value.breakdown.items_cost + result.value.breakdown.shipping_cost

\* C2 amended: on success with unique vendor names, shipping_cost is the sum of
\* shipping over the distinct vendors named in the selection (each charged once, an
\* unused vendor not at all) rounded to 2 decimals, and cheapest_total is the
\* unrounded item total plus that unrounded shipping sum, rounded to 2 decimals.
C2_ShippingOncePerUsedVendor ==
  (BestDealSucceeded /\ UniqueNames) =>
    /\ IsRounded(result.value.breakdown.shipping_cost,
                 UsedShipping(result.value.selection))
    /\ IsRounded(result.value.cheapest_total,
                 PaidForItems(result.value.selection)
                 + UsedShipping(result.value.selection))
    /\ result.value.breakdown.total_vendors_used
         = Cardinality(SelectionNames(result.value.selection))

\* one vendor supplies both items of the cart and charges shipping, another vendor
\* that charges shipping supplies nothing
C2_Witness ==
  /\ BestDealSucceeded /\ UniqueNames /\ AllWellFormed
  /\ Len(cart) = 2 /\ cart[1] /= cart[2]
  /\ result.value.selection[cart[1]] = result.value.selection[cart[2]]
  /\ \E j, k \in 1..Len(vendors) :
       /\ vendors[j].name.val = result.value.selection[cart[1]]
       /\ vendors[j].shipping.val > 0
       /\ vendors[k].name.val \notin SelectionNames(result.value.selection)
       /\ vendors[k].shipping.val > 0
       /\ result.value.breakdown.shipping_cost = Round2(vendors[j].shipping.val)

\* the earliest vendor among those that offer the item at the minimum price
EarliestCheapest(item) ==
  CHOOSE j \in Carriers(item) :
    /\ PriceAt(j, item) = MinPriceOf(item)
    /\ \A k \in Carriers(item) : PriceAt(k, item) = MinPriceOf(item) => j <= k

\* C3: on success, selection[item] names, for every cart item, the earliest vendor
\* of the input list among those offering the item at the minimum price.
C3_FirstVendorWinsTies ==
  BestDealSucceeded =>
    /\ DOMAIN result.value.selection = CartItems
    /\ \A item \in CartItems :
         result.value.selection[item] = vendors[EarliestCheapest(item)].name.val

\* two vendors tie at the minimum price of an item and a third, dearer one comes first
C3_Witness ==
  /\ BestDealSucceeded /\ UniqueNames /\ AllWellFormed
  /\ \E item \in CartItems :
       /\ Carriers(item) = {1, 2, 3}
       /\ PriceAt(1, item) > PriceAt(2, item)
       /\ PriceAt(2, item) = PriceAt(3, item)
       /\ result.value.selection[item] = vendors[2].name.val

\* C4: on a non-empty cart and well-formed vendors, calculateBestDeal fails with the
\* item-unavailable error exactly when some cart item is in no vendor's items
\* mapping, and succeeds otherwise; an item offered at price zero is available.
C4_UnavailableIffAbsentEverywhere ==
  ValidBestDealInput =>
    /\ ItemUnavailableError(result) <=> ~EveryItemOffered
    /\ result.threw <=> ~EveryItemOffered
    /\ \A item \in CartItems :
         ItemUnavailableError(result) /\ result.error[2] = item => Carriers(item) = {}

\* an item offered only at price zero is selected at cost zero
C4_Witness ==
  /\ ValidBestDealInput
  /\ ~result.threw
  /\ \A item \in CartItems : \A j \in Carriers(item) : PriceAt(j, item) = 0
  /\ result.value.breakdown.items_cost = 0

\* the entry lacks a name, a numeric non-negative shipping fee, or an items mapping
LacksRequiredField(v) ==
  \/ ~NameOK(v)
  \/ v.shipping.type /= "number"
  \/ v.shipping.val < 0
  \/ v.items.type /= "object"

\* C5 as stated: on a non-empty cart and a non-empty vendor list, calculateBestDeal
\* fails with the invalid-vendor error whenever some vendor entry lacks a name, a
\* numeric non-negative shipping fee (a negative fee included) or an items mapping.
C5_AsStated ==
  (/\ BestDealCalled
   /\ Len(cart) > 0
   /\ Len(vendors) > 0
   /\ \E j \in 1..Len(vendors) : LacksRequiredField(vendors[j]))
  => InvalidVendorError(result)

SingleVendorCalled == op = "calculateSingleVendorCost"

HasWholeCart(v) == v.items.type = "object" /\ CartItems \subseteq DOMAIN v.items.map

\* the unrounded price of the whole cart at vendor v, every position counted
ExactItemsCost(v) == LET P(item) == v.items.map[item] IN CartSum(P)

ComparisonsCalled == op = "getAllVendorComparisons"

\* the positions of the vendors that pass the structure check and carry the cart
Fulfilling == {j \in 1..Len(vendors) : StructureOK(vendors[j]) /\ HasWholeCart(vendors[j])}

\* the orders in which the fulfilling vendors can be listed, each exactly once
Listings ==
  {f \in [1..Cardinality(Fulfilling) -> Fulfilling] :
     \A k, l \in DOMAIN f : f[k] = f[l] => k = l}

C7_WitnessEmpty ==
  /\ ComparisonsCalled
  /\ Len(cart) > 0 /\ Len(vendors) > 0
  /\ result.value = <<>>

AnalyzeCalled == op = "analyzeCartDeal"

\* C8 as stated: when analyzeCartDeal succeeds (here: on well-formed vendors) with
\* a non-empty comparison sequence, percentage_saved is a finite number, also when
\* the most expensive single-vendor total is zero.
C8_AsStated ==
  (/\ AnalyzeCalled
   /\ AllWellFormed
   /\ ~result.threw
   /\ Len(result.value.vendor_comparisons) > 0)
  => result.value.savings_analysis.percentage_saved.kind = "finite"

PostCalled == op = "POST /best-deal"

\* C9 as stated: in POST /best-deal every failure of calculateBestDeal on a request
\* that passed validateRequestData is answered with status 400.
C9_AsStated ==
  (PostCalled /\ ~validateRequestData(cart, vendors).threw /\ result.status /= 200)
  => result.status = 400

\* valid input of C10: prices and fees >= 0, unique names, a vendor with the whole cart
ValidAnalysisInput ==
  /\ AnalyzeCalled
  /\ Len(cart) > 0
  /\ AllWellFormed
  /\ UniqueNames
  /\ \E j \in 1..Len(vendors) : HasWholeCart(vendors[j])

\* C10: on valid input analyzeCartDeal returns the per-item greedy selection with
\* its own total, and vs_cheapest_single_vendor is the cheapest single-vendor total
\* minus that total, also when the greedy total is the greater one; the witness
\* shows inputs where it is.
C10_GreedyKeptWhenDearer ==
  ValidAnalysisInput =>
    /\ ~result.threw
    /\ Len(result.value.vendor_comparisons) > 0
    /\ LET deal == result.value.optimal_deal
           single == result.value.vendor_comparisons[1].total_cost
       IN /\ \A item \in CartItems :
               deal.selection[item] = vendors[EarliestCheapest(item)].name.val
          /\ IsRounded(deal.cheapest_total,
                       PaidForItems(deal.selection) + UsedShipping(deal.selection))
          /\ result.value.savings_analysis.vs_cheapest_single_vendor
               = single - deal.cheapest_total

\* the greedy total exceeds the cheapest single-vendor total
C10_Witness ==
  /\ ValidAnalysisInput
  /\ ~result.threw
  /\ result.value.optimal_deal.cheapest_total
       > result.value.vendor_comparisons[1].total_cost
  /\ result.value.savings_analysis.vs_cheapest_single_vendor < 0
  /\ result.value.optimal_deal.breakdown.total_vendors_used = 2

====
